---- MODULE Spec2Model ----
(***************************************************************************)
(* TerraDataModel (terra/models/base_model.py): the reflective codec       *)
(* between model instances and plain nested mappings.                      *)
(*                                                                         *)
(* Python values are records [kind, val]:                                  *)
(*   none, int, str, bool      val is the value                            *)
(*   enum                      an enum.IntEnum member, val its integer     *)
(*   list                      val is the sequence of elements             *)
(*   dict                      val is the sequence of <<key, value>> pairs *)
(*                             in insertion order, keys distinct           *)
(*   model                     val is [cls, attrs], attrs a function from  *)
(*                             attribute names to values                   *)
(*   error                     a raised exception, val its class name      *)
(* A declared field type is the sequence of tokens of its string form.     *)
(***************************************************************************)
EXTENDS Integers, Sequences, FiniteSets, TLC

VARIABLES
  scenario,    \* "encode", "decode" or "merge": what the client does with the instance
  cls,         \* the model type the calls are made on
  self,        \* the client's instance (to_dict's source, populate_from_dict's target)
  model_dict,  \* the mapping passed to the decode or merge call
  safe,        \* the safe flag passed to it
  reversed,    \* the iteration order of the attribute-name set in this process
  pc,          \* the last call made: "start" before any
  before,      \* self as it was when the last populate_from_dict call began
  ret,         \* what the last call returned, or the exception it raised
  assigned,    \* the top-level keys the last decode or merge call passed to setattr
  at,          \* the position in model_dict of the pair that call last worked on
  calls        \* populate_from_dict calls made so far

vars == <<scenario, cls, self, model_dict, safe, reversed, pc, before, ret, assigned, at, calls>>

\* Bounds of the model.
MaxKeys == 2      \* keys in an incoming mapping
MaxLen == 2       \* elements in a list value
MaxCalls == 2     \* populate_from_dict calls made on one instance

None == [kind |-> "none", val |-> 0]
PyInt(n) == [kind |-> "int", val |-> n]
PyStr(s) == [kind |-> "str", val |-> s]
PyBool(b) == [kind |-> "bool", val |-> b]
PyEnum(n) == [kind |-> "enum", val |-> n]
PyList(s) == [kind |-> "list", val |-> s]
PyDict(s) == [kind |-> "dict", val |-> s]
Model(c, attrs) == [kind |-> "model", val |-> [cls |-> c, attrs |-> attrs]]
Raise(e) == [kind |-> "error", val |-> e]

IsError(v) == v.kind = "error"
IsList(v) == v.kind = "list"
IsModel(v) == v.kind = "model"

\* base_model.py:21. type(x) in PRIMITIVES is an exact type test: an IntEnum
\* member, a list and a model are not in it.
PRIMITIVES == {"str", "int", "bool", "float", "none", "dict"}

\* The sentinel getattr returns for a missing attribute when safe is true.
NOT_FOUND == PyStr("NOT_FOUND")

(***************************************************************************)
(* The model types the codec is exercised on.  The concrete dataclasses    *)
(* live outside base_model.py; these four cover the shapes its branches    *)
(* distinguish: defaults that are None, an empty list, a scalar, a nested  *)
(* model; declarations with and without a bracketed element type, naming a *)
(* model that resolves, one that does not, and a non-model.                *)
(***************************************************************************)
Types == {"Leaf", "Inner", "Outer", "Misc"}

\* dataclasses.fields(cls()): the field names, in declaration order.
FieldNames ==
  [Leaf  |-> <<"a", "e">>,
   Inner |-> <<"a", "b">>,
   Outer |-> <<"x", "y", "leaf", "leaves">>,
   Misc  |-> <<"n", "s", "raw", "ghosts", "opt", "child", "inner">>]

OptionalInt == <<"typing", ".", "Optional", "[", "int", "]">>

\* dataclasses.fields(cls()): str(field.type) of each field.
FieldTypes ==
  [Leaf  |-> [a |-> OptionalInt,
              e |-> <<"typing", ".", "Optional", "[", "models", ".", "Kind", "]">>],
   Inner |-> [a |-> OptionalInt,
              b |-> <<"int">>],
   Outer |-> [x |-> OptionalInt,
              y |-> <<"typing", ".", "List", "[", "int", "]">>,
              leaf |-> <<"models", ".", "Leaf">>,
              leaves |-> <<"typing", ".", "List", "[", "models", ".", "Leaf", "]">>],
   Misc  |-> [n |-> OptionalInt,
              s |-> <<"str">>,
              raw |-> <<"list">>,
              ghosts |-> <<"typing", ".", "List", "[", "models", ".", "Missing", "]">>,
              opt |-> <<"typing", ".", "Optional", "[", "typing", ".", "List", "[",
                        "models", ".", "Leaf", "]", "]">>,
              child |-> <<"typing", ".", "Optional", "[", "models", ".", "Leaf", "]">>,
              inner |-> <<"terra", ".", "models", ".", "Inner">>]]

LeafDefaults == [a |-> None, e |-> None]
InnerDefaults == [a |-> None, b |-> PyInt(3)]

\* The attribute values of cls(): each field at its default.
Defaults ==
  [Leaf  |-> LeafDefaults,
   Inner |-> InnerDefaults,
   Outer |-> [x |-> None, y |-> PyList(<<>>), leaf |-> Model("Leaf", LeafDefaults),
              leaves |-> None],
   Misc  |-> [n |-> PyInt(0), s |-> PyStr(""), raw |-> None, ghosts |-> None, opt |-> None,
              child |-> None, inner |-> Model("Inner", InnerDefaults)]]

\* cls(): a freshly constructed instance.
New(T) == Model(T, Defaults[T])

\* The fully qualified name of a model type in the catalog.
QualName(T) == <<"terra", ".", "models", ".", T>>

\* pydoc.locate(name): the model type of that name, or None.
locate(name) ==
  IF \E T \in Types : QualName(T) = name
  THEN PyStr(CHOOSE T \in Types : QualName(T) = name)
  ELSE None

----------------------------------------------------------------------------
(* Helpers *)

Range(s) == {s[i] : i \in 1..Len(s)}

Reverse(s) == [i \in 1..Len(s) |-> s[Len(s) + 1 - i]]

\* hasattr(obj, k)
HasAttr(obj, k) == k \in DOMAIN obj.val.attrs

\* getattr(obj, k, "NOT_FOUND")
GetAttr(obj, k) == IF HasAttr(obj, k) THEN obj.val.attrs[k] ELSE NOT_FOUND

\* setattr(obj, k, v): an attribute the instance lacks is created.
SetAttr(obj, k, v) ==
  Model(obj.val.cls,
        [a \in DOMAIN obj.val.attrs \cup {k} |-> IF a = k THEN v ELSE obj.val.attrs[a]])

\* str.split(sep) on a token sequence: the segments between the separators.
RECURSIVE Split(_, _)
Split(s, sep) ==
  IF \A i \in 1..Len(s) : s[i] # sep
  THEN <<s>>
  ELSE LET i == CHOOSE j \in 1..Len(s) : s[j] = sep /\ \A h \in 1..(j - 1) : s[h] # sep
       IN <<SubSeq(s, 1, i - 1)>> \o Split(SubSeq(s, i + 1, Len(s)), sep)

\* name.split(".")[0]
FirstSegment(name) == Split(name, ".")[1]

\* The first element of a sequence of results that is an exception.
FirstError(rs) == rs[CHOOSE i \in 1..Len(rs) : IsError(rs[i]) /\ \A h \in 1..(i - 1) : ~IsError(rs[h])]

----------------------------------------------------------------------------
(* Attribute enumeration, base_model.py:35-51 *)

\* dir(TerraDataModel): the names the base class defines, which _get_attrs
\* removes (besides the names with a leading underscore, of which the types
\* here have none).
BaseAttrs == {"keys", "values", "items", "to_dict", "from_dict", "from_dict_api",
              "populate_from_dict"}

\* _get_attrs: the public attribute names, in the iteration order of a set of
\* strings, which is fixed within a process and unspecified across processes.
get_attrs(obj) ==
  LET names == SelectSeq(FieldNames[obj.val.cls], LAMBDA a : a \notin BaseAttrs)
  IN IF reversed THEN Reverse(names) ELSE names

\* items(): the (name, value) pairs of an instance.
items(obj) == [i \in 1..Len(get_attrs(obj)) |-> <<get_attrs(obj)[i], obj.val.attrs[get_attrs(obj)[i]]>>]

----------------------------------------------------------------------------
(* Encode, base_model.py:53-79 *)

RECURSIVE to_dict(_), EncodeValue(_), CallToDict(_)

\* item.to_dict(): only a model has the method.
CallToDict(item) == IF IsModel(item) THEN to_dict(item) ELSE Raise("AttributeError")

\* EncodeValue with the element-wise branch of line 76 lost: every list is
\* stored as it is.
EncodeValue_PassThrough(attr_val) ==
  IF attr_val.kind = "enum" THEN PyInt(attr_val.val)
  ELSE IF attr_val.kind \in PRIMITIVES \/ IsList(attr_val) THEN attr_val
  ELSE CallToDict(attr_val)

\* The value to_dict stores for one attribute value (lines 68-78).
EncodeValue(attr_val) ==
  IF attr_val.kind = "enum" THEN PyInt(attr_val.val)
  ELSE IF attr_val.kind \in PRIMITIVES THEN attr_val
  ELSE IF IsList(attr_val)
       THEN IF attr_val.val = <<>> \/ attr_val.val[1].kind \in PRIMITIVES
            THEN attr_val
            ELSE LET out == [i \in 1..Len(attr_val.val) |-> CallToDict(attr_val.val[i])]
                 IN IF \E i \in 1..Len(out) : IsError(out[i])
                    THEN FirstError(out)
                    ELSE PyList(out)
       ELSE CallToDict(attr_val)

to_dict(obj) ==
  LET attrs == get_attrs(obj)
      output == [i \in 1..Len(attrs) |-> <<attrs[i], EncodeValue(obj.val.attrs[attrs[i]])>>]
      vals == [i \in 1..Len(attrs) |-> output[i][2]]
  IN IF \E i \in 1..Len(vals) : IsError(vals[i])
     THEN FirstError(vals)
     ELSE PyDict(output)

----------------------------------------------------------------------------
(* Strict decode, base_model.py:81-145 *)

\* model_dict.items(): the pairs of a mapping; a model instance has items() too
\* (line 48); any other value has no such method.
ItemsOf(v) ==
  IF v.kind = "dict" THEN PyList(v.val)
  ELSE IF IsModel(v) THEN PyList(items(v))
  ELSE Raise("AttributeError")

\* inner_item in [None, []]
InNoneOrEmpty(inner_item) == inner_item = None \/ inner_item = PyList(<<>>)

\* Eligible with the guard dropped: every key is overwritten.
Eligible_Always(inner_item, v) == TRUE

\* The condition of lines 100-104.
Eligible(inner_item, v) ==
  InNoneOrEmpty(inner_item) \/ IsModel(inner_item) \/ IsList(v)

\* ElementTypeName without the qualification of lines 121-122.
ElementTypeName_Unqualified(decl) ==
  LET parts == Split(decl, "[")
  IN IF Len(parts) < 2
     THEN Raise("IndexError")
     ELSE PyStr(Split(parts[2], "]")[1])

\* Lines 118-122: the element type name of a declared type, qualified with the
\* root package when it starts with "models".  An exception when the declared
\* type has no "[".
ElementTypeName(decl) ==
  LET parts == Split(decl, "[")
  IN IF Len(parts) < 2
     THEN Raise("IndexError")
     ELSE LET name == Split(parts[2], "]")[1]
          IN PyStr(IF FirstSegment(name) = <<"models">> THEN <<"terra", ".">> \o name ELSE name)

RECURSIVE from_dict(_, _, _), FromDictLoop(_, _, _, _, _), FromDictStep(_, _, _, _, _),
          ResolveList(_, _, _)

\* ResolveList as the permissive decode treats a list: assigned as it is.
ResolveList_PassThrough(c, k, v) == v

\* Lines 112-141, for a non-empty list v: the list setattr receives.
ResolveList(c, k, v) ==
  IF k \notin Range(FieldNames[c])
  THEN Raise("KeyError")
  ELSE LET current_field_name == ElementTypeName(FieldTypes[c][k])
       IN IF IsError(current_field_name) THEN current_field_name
          ELSE IF FirstSegment(current_field_name.val) # <<"terra">> THEN v
          ELSE LET T == locate(current_field_name.val)
               IN IF T = None
                  THEN Raise("TypeError")
                  ELSE LET result == [i \in 1..Len(v.val) |-> from_dict(T.val, v.val[i], FALSE)]
                       IN IF \E i \in 1..Len(result) : IsError(result[i])
                          THEN FirstError(result)
                          ELSE PyList(result)

\* FromDictStep with the safe flag handed on to the nested decode of line 107.
FromDictStep_SafeNested(c, st, k, v, sf) ==
  IF ~sf /\ ~HasAttr(st.obj, k)
  THEN [st EXCEPT !.raised = Raise("AttributeError")]
  ELSE LET inner_item == GetAttr(st.obj, k)
       IN IF ~Eligible(inner_item, v) THEN st
          ELSE LET v1 == IF IsModel(inner_item)
                         THEN from_dict(inner_item.val.cls, v, sf)
                         ELSE v
               IN IF IsError(v1) THEN [st EXCEPT !.raised = v1]
                  ELSE LET v2 == IF IsList(v1) /\ v1.val # <<>>
                                 THEN ResolveList(c, k, v1)
                                 ELSE v1
                       IN IF IsError(v2) THEN [st EXCEPT !.raised = v2]
                          ELSE [st EXCEPT !.obj = SetAttr(st.obj, k, v2),
                                          !.set = @ \cup {k}]

\* One iteration of the loop of line 99 on the pair (k, v).  A loop state is
\* [obj, raised, set]: the instance, None or the exception raised, and the keys
\* passed to setattr; at is the position of the pair the loop last worked on,
\* which is the pair that raised when one did.
FromDictStep(c, st, k, v, sf) ==
  IF ~sf /\ ~HasAttr(st.obj, k)
  THEN [st EXCEPT !.raised = Raise("AttributeError")]
  ELSE LET inner_item == GetAttr(st.obj, k)
       IN IF ~Eligible(inner_item, v) THEN st
          ELSE LET v1 == IF IsModel(inner_item)
                         THEN from_dict(inner_item.val.cls, v, FALSE)
                         ELSE v
               IN IF IsError(v1) THEN [st EXCEPT !.raised = v1]
                  ELSE LET v2 == IF IsList(v1) /\ v1.val # <<>>
                                 THEN ResolveList(c, k, v1)
                                 ELSE v1
                       IN IF IsError(v2) THEN [st EXCEPT !.raised = v2]
                          ELSE [st EXCEPT !.obj = SetAttr(st.obj, k, v2),
                                          !.set = @ \cup {k}]

FromDictLoop(c, st, pairs, i, sf) ==
  IF i > Len(pairs) \/ st.raised # None THEN st
  ELSE FromDictLoop(c, [FromDictStep(c, st, pairs[i][1], pairs[i][2], sf) EXCEPT !.at = i],
                    pairs, i + 1, sf)

\* The loop state a call ends in.
FromDictRun(c, d, sf) ==
  LET start == [obj |-> New(c), raised |-> None, set |-> {}, at |-> 0]
      pairs == ItemsOf(d)
  IN IF IsError(pairs) THEN [start EXCEPT !.raised = pairs]
     ELSE FromDictLoop(c, start, pairs.val, 1, sf)

from_dict(c, d, sf) ==
  LET end == FromDictRun(c, d, sf)
  IN IF end.raised # None THEN end.raised ELSE end.obj

----------------------------------------------------------------------------
(* Permissive decode, base_model.py:147-175 *)

\* EligibleApi with the empty-list case lost.
EligibleApi_NoneOnly(inner_item) == inner_item = None \/ IsModel(inner_item)

\* The condition of lines 166-168.
EligibleApi(inner_item) == InNoneOrEmpty(inner_item) \/ IsModel(inner_item)

RECURSIVE from_dict_api(_, _, _), FromDictApiLoop(_, _, _, _, _), FromDictApiStep(_, _, _, _, _)

FromDictApiStep(c, st, k, v, sf) ==
  IF ~sf /\ ~HasAttr(st.obj, k)
  THEN [st EXCEPT !.raised = Raise("AttributeError")]
  ELSE LET inner_item == GetAttr(st.obj, k)
       IN IF ~EligibleApi(inner_item) THEN st
          ELSE LET v1 == IF IsModel(inner_item)
                         THEN from_dict_api(inner_item.val.cls, v, FALSE)
                         ELSE v
               IN IF IsError(v1) THEN [st EXCEPT !.raised = v1]
                  ELSE [st EXCEPT !.obj = SetAttr(st.obj, k, v1),
                                  !.set = @ \cup {k}]

FromDictApiLoop(c, st, pairs, i, sf) ==
  IF i > Len(pairs) \/ st.raised # None THEN st
  ELSE FromDictApiLoop(c, [FromDictApiStep(c, st, pairs[i][1], pairs[i][2], sf) EXCEPT !.at = i],
                       pairs, i + 1, sf)

FromDictApiRun(c, d, sf) ==
  LET start == [obj |-> New(c), raised |-> None, set |-> {}, at |-> 0]
      pairs == ItemsOf(d)
  IN IF IsError(pairs) THEN [start EXCEPT !.raised = pairs]
     ELSE FromDictApiLoop(c, start, pairs.val, 1, sf)

from_dict_api(c, d, sf) ==
  LET end == FromDictApiRun(c, d, sf)
  IN IF end.raised # None THEN end.raised ELSE end.obj

----------------------------------------------------------------------------
(* Merge missing, base_model.py:177-197 *)

\* PopulateStep with the test of the decodes: an empty list counts as missing.
PopulateStep_NoneOrEmpty(st, k, v, sf) ==
  IF ~sf /\ ~HasAttr(st.obj, k)
  THEN [st EXCEPT !.raised = Raise("AttributeError")]
  ELSE IF InNoneOrEmpty(GetAttr(st.obj, k))
       THEN [st EXCEPT !.obj = SetAttr(st.obj, k, v), !.set = @ \cup {k}]
       ELSE st

\* One iteration of the loop of line 193 on the pair (k, v).
PopulateStep(st, k, v, sf) ==
  IF ~sf /\ ~HasAttr(st.obj, k)
  THEN [st EXCEPT !.raised = Raise("AttributeError")]
  ELSE IF GetAttr(st.obj, k) = None
       THEN [st EXCEPT !.obj = SetAttr(st.obj, k, v), !.set = @ \cup {k}]
       ELSE st

RECURSIVE PopulateLoop(_, _, _, _)
PopulateLoop(st, pairs, i, sf) ==
  IF i > Len(pairs) \/ st.raised # None THEN st
  ELSE PopulateLoop([PopulateStep(st, pairs[i][1], pairs[i][2], sf) EXCEPT !.at = i],
                    pairs, i + 1, sf)

\* populate_from_dict made atomic: a call that raises leaves the instance as
\* it found it.
populate_from_dict_Atomic(obj, d, sf) ==
  LET start == [obj |-> obj, raised |-> None, set |-> {}, at |-> 0]
      pairs == ItemsOf(d)
      end == IF IsError(pairs) THEN [start EXCEPT !.raised = pairs]
             ELSE PopulateLoop(start, pairs.val, 1, sf)
  IN IF end.raised # None THEN [end EXCEPT !.obj = obj, !.set = {}] ELSE end

\* The loop state the call ends in: obj is the instance as the call leaves it,
\* also when it raised.
populate_from_dict(obj, d, sf) ==
  LET start == [obj |-> obj, raised |-> None, set |-> {}, at |-> 0]
      pairs == ItemsOf(d)
  IN IF IsError(pairs) THEN [start EXCEPT !.raised = pairs]
     ELSE PopulateLoop(start, pairs.val, 1, sf)

----------------------------------------------------------------------------
(* The inputs the calls are made on *)

\* Lists of at most MaxLen elements of S.
ListsOf(S) == {PyList(s) : s \in UNION {[1..n -> S] : n \in 0..MaxLen}}

LeafMapA == PyDict(<< <<"a", PyInt(1)>> >>)
LeafMapB == PyDict(<< <<"a", PyInt(2)>> >>)
LeafMapZ == PyDict(<< <<"zzz", PyInt(1)>> >>)

LeafA == Model("Leaf", [a |-> PyInt(1), e |-> PyEnum(1)])
LeafB == Model("Leaf", [a |-> PyInt(2), e |-> PyEnum(1)])

\* A key that is no attribute of any type.
UnknownKey == "zzz"

Keys(T) == Range(FieldNames[T]) \cup {UnknownKey}

\* The values a mapping pairs with key k when it is decoded into T.
IncomingValues(T, k) ==
  IF k = UnknownKey
  THEN {PyInt(1), LeafMapA, PyList(<<>>), PyList(<<PyInt(1)>>)}
  ELSE CASE T = "Leaf" ->
              [a |-> {PyInt(1), PyInt(2), PyList(<<PyInt(1)>>)},
               e |-> {PyInt(1)}][k]
         [] T = "Inner" ->
              [a |-> {PyInt(1)},
               b |-> {PyInt(9), PyList(<<>>)}][k]
         [] T = "Outer" ->
              [x |-> {PyInt(9), None},
               y |-> {PyList(<<PyInt(1), PyInt(2)>>), PyInt(7)},
               leaf |-> {LeafMapA, LeafMapZ, PyInt(5), PyList(<<>>)},
               leaves |-> ListsOf({LeafMapA, LeafMapB})
                           \cup {PyList(<<LeafMapZ>>), PyList(<<LeafMapA, LeafMapZ>>),
                                 PyList(<<PyInt(1)>>)}][k]
         [] T = "Misc" ->
              [n |-> {PyInt(9), PyList(<<>>), PyList(<<PyInt(1)>>)},
               s |-> {PyStr("t"), PyList(<<PyInt(1)>>)},
               raw |-> {PyList(<<PyInt(1)>>), PyInt(1)},
               ghosts |-> {PyList(<<LeafMapA>>), PyList(<<>>)},
               opt |-> {PyList(<<LeafMapA>>)},
               child |-> {LeafMapA},
               inner |-> {PyDict(<< <<"b", PyInt(9)>> >>), PyDict(<< <<"a", PyInt(1)>> >>),
                          LeafMapZ}][k]

DistinctKeys(pairs) == \A i, j \in 1..Len(pairs) : pairs[i][1] = pairs[j][1] => i = j

\* The pairs of a key of K with one of the values P gives it.
PairsOver(K, P) == UNION {{<<k, v>> : v \in P[k]} : k \in K}

\* The mappings of at most n of the pairs PS, no key twice.
MappingsOver(PS, n) ==
  {PyDict(s) : s \in {t \in UNION {[1..m -> PS] : m \in 0..n} : DistinctKeys(t)}}

\* The mappings a decode call receives.
Mappings(T) ==
  MappingsOver(PairsOver(Keys(T), [k \in Keys(T) |-> IncomingValues(T, k)]), MaxKeys)

\* The values a merge offers for any key, None among them.
MergeValues == {PyInt(7), None}

\* The mappings the first merge call receives: one key more than a decode's,
\* so that a key can fail with keys on both sides of it.
MergeMappings(T) ==
  MappingsOver(PairsOver(Keys(T), [k \in Keys(T) |-> MergeValues]), MaxKeys + 1)

\* The mappings a later merge call receives: every field, or one key.
LaterMappings(T) ==
  {PyDict([i \in 1..Len(FieldNames[T]) |-> <<FieldNames[T][i], PyStr("late")>>])}
    \cup {PyDict(<< <<k, PyStr("late")>> >>) : k \in {FieldNames[T][1], UnknownKey}}

\* The values the client gives field k of an instance of T it encodes.
FieldValues(T, k) ==
  CASE T = "Leaf" ->
         [a |-> {PyInt(1), PyInt(2), None},
          e |-> {PyEnum(1), None}][k]
    [] T = "Inner" ->
         [a |-> {PyInt(1)},
          b |-> {PyInt(3), PyInt(9)}][k]
    [] T = "Outer" ->
         [x |-> {PyInt(5), PyBool(TRUE)},
          y |-> {PyList(<<PyInt(1), PyInt(2)>>), PyList(<<>>), PyList(<<None, LeafMapA>>)},
          leaf |-> {LeafA, LeafB},
          leaves |-> ListsOf({LeafA, LeafB, PyInt(7)})][k]
    [] T = "Misc" ->
         [n |-> {PyInt(9)},
          s |-> {PyStr("t")},
          raw |-> {PyList(<<PyInt(1)>>)},
          ghosts |-> {PyList(<<LeafA>>)},
          opt |-> {PyList(<<LeafA>>), None},
          child |-> {LeafA, None},
          inner |-> {Model("Inner", [a |-> PyInt(1), b |-> PyInt(9)]),
                     Model("Inner", [a |-> PyInt(1), b |-> PyInt(3)])}][k]

\* The position of field k in the declaration of T.
FieldIndex(T, k) == CHOOSE i \in 1..Len(FieldNames[T]) : FieldNames[T][i] = k

\* The value sequences for the first n fields of T.
RECURSIVE ValueSeqs(_, _)
ValueSeqs(T, n) ==
  IF n = 0 THEN {<<>>}
  ELSE {Append(s, v) : s \in ValueSeqs(T, n - 1), v \in FieldValues(T, FieldNames[T][n])}

\* The instances of T the client encodes.
Instances(T) ==
  {Model(T, [k \in Range(FieldNames[T]) |-> s[FieldIndex(T, k)]]) :
     s \in ValueSeqs(T, Len(FieldNames[T]))}

----------------------------------------------------------------------------
(* The state machine: a client draws its inputs, then makes its calls *)

InitCommon ==
  /\ cls \in Types
  /\ safe \in BOOLEAN
  /\ pc = "start"
  /\ before = None
  /\ ret = None
  /\ assigned = {}
  /\ at = 0
  /\ calls = 0

InitEncode ==
  /\ scenario = "encode"
  /\ InitCommon
  /\ reversed \in BOOLEAN
  /\ self \in Instances(cls)
  /\ model_dict = PyDict(<<>>)

InitDecode ==
  /\ scenario = "decode"
  /\ InitCommon
  /\ reversed = FALSE
  /\ self = New(cls)
  /\ model_dict \in Mappings(cls)

InitMerge ==
  /\ scenario = "merge"
  /\ InitCommon
  /\ reversed = FALSE
  /\ self = New(cls)
  /\ model_dict \in MergeMappings(cls)

Init == InitEncode \/ InitDecode \/ InitMerge

\* self.to_dict()
ToDict ==
  /\ scenario = "encode"
  /\ pc = "start"
  /\ ret' = to_dict(self)
  /\ pc' = "to_dict"
  /\ UNCHANGED <<scenario, cls, self, model_dict, safe, reversed, before, assigned, at, calls>>

\* cls.from_dict(model_dict, safe), on the drawn mapping or on what to_dict returned
FromDict ==
  /\ \/ scenario = "decode" /\ pc = "start"
     \/ scenario = "encode" /\ pc = "to_dict" /\ ~IsError(ret)
  /\ LET d == IF pc = "to_dict" THEN ret ELSE model_dict
         end == FromDictRun(cls, d, safe)
     IN /\ model_dict' = d
        /\ ret' = from_dict(cls, d, safe)
        /\ assigned' = end.set
        /\ at' = end.at
  /\ pc' = "from_dict"
  /\ UNCHANGED <<scenario, cls, self, safe, reversed, before, calls>>

\* cls.from_dict_api(model_dict, safe)
FromDictApi ==
  /\ scenario = "decode"
  /\ pc = "start"
  /\ ret' = from_dict_api(cls, model_dict, safe)
  /\ assigned' = FromDictApiRun(cls, model_dict, safe).set
  /\ at' = FromDictApiRun(cls, model_dict, safe).at
  /\ pc' = "from_dict_api"
  /\ UNCHANGED <<scenario, cls, self, model_dict, safe, reversed, before, calls>>

\* self.populate_from_dict(d, safe): the first call on the drawn mapping
PopulateFromDict ==
  /\ scenario = "merge"
  /\ calls < MaxCalls
  /\ \E d \in (IF calls = 0 THEN {model_dict} ELSE LaterMappings(cls)) :
       LET end == populate_from_dict(self, d, safe)
       IN /\ model_dict' = d
          /\ before' = self
          /\ self' = end.obj
          /\ ret' = IF end.raised # None THEN end.raised ELSE end.obj
          /\ assigned' = end.set
          /\ at' = end.at
  /\ calls' = calls + 1
  /\ pc' = "populate_from_dict"
  /\ UNCHANGED <<scenario, cls, safe, reversed>>

Next == ToDict \/ FromDict \/ FromDictApi \/ PopulateFromDict

Spec == Init /\ [][Next]_vars

----------------------------------------------------------------------------
(* Notions the properties are stated in *)

\* The pairs of the mapping the last decode or merge call received.
Pairs == model_dict.val

\* The value a mapping holds for key k.
Lookup(d, k) == d.val[CHOOSE i \in 1..Len(d.val) : d.val[i][1] = k][2]

HasKey(d, k) == \E i \in 1..Len(d.val) : d.val[i][1] = k

IsField(T, k) == k \in Range(FieldNames[T])

\* Field k of T is declared a list of the model type C, by its bare or its
\* qualified name.
ListOfModelField(T, k, C) ==
  /\ IsField(T, k)
  /\ FieldTypes[T][k] \in {<<"typing", ".", "List", "[", "models", ".", C, "]">>,
                           <<"typing", ".", "List", "[", "terra", ".", "models", ".", C, "]">>}

\* Field k of T is declared a list of something that is no model type.
ListOfPlainField(T, k) ==
  /\ IsField(T, k)
  /\ FieldTypes[T][k] \in {<<"typing", ".", "List", "[", t, "]">> : t \in {"int", "str", "dict"}}

\* The integer a numeric value compares as: True is 1, an IntEnum member its value.
Num(v) == IF v.kind = "bool" THEN (IF v.val THEN 1 ELSE 0) ELSE v.val

\* Python's ==, which for two dataclass instances of one class compares the
\* fields in turn.
RECURSIVE PyEq(_, _)
PyEq(x, y) ==
  IF x.kind \in {"int", "enum", "bool"} /\ y.kind \in {"int", "enum", "bool"}
  THEN Num(x) = Num(y)
  ELSE IF x.kind # y.kind THEN FALSE
  ELSE IF x.kind = "list"
       THEN Len(x.val) = Len(y.val) /\ \A i \in 1..Len(x.val) : PyEq(x.val[i], y.val[i])
  ELSE IF x.kind = "dict"
       THEN /\ Len(x.val) = Len(y.val)
            /\ \A i \in 1..Len(x.val) :
                 HasKey(y, x.val[i][1]) /\ PyEq(x.val[i][2], Lookup(y, x.val[i][1]))
  ELSE IF x.kind = "model"
       THEN /\ x.val.cls = y.val.cls
            /\ DOMAIN x.val.attrs = DOMAIN y.val.attrs
            /\ \A k \in DOMAIN x.val.attrs : PyEq(x.val.attrs[k], y.val.attrs[k])
  ELSE x.val = y.val

\* All elements of a list are of one type.
Homogeneous(l) ==
  \A i, j \in 1..Len(l.val) :
    /\ l.val[i].kind = l.val[j].kind
    /\ IsModel(l.val[i]) => l.val[i].val.cls = l.val[j].val.cls

\* Every field non-null, no empty list, no mixed-type list, in m and the models in it.
RECURSIVE FullyPopulated(_)
FullyPopulated(m) ==
  \A k \in DOMAIN m.val.attrs :
    LET v == m.val.attrs[k]
    IN /\ v # None
       /\ IsModel(v) => FullyPopulated(v)
       /\ IsList(v) =>
            /\ v.val # <<>>
            /\ Homogeneous(v)
            /\ \A i \in 1..Len(v.val) :
                 /\ v.val[i] # None
                 /\ IsModel(v.val[i]) => FullyPopulated(v.val[i])

\* The defaults and declarations of m's type, and of the types of the models
\* in m, let a decode rebuild m: a field holding a model defaults to an
\* instance of that model's type; any other field defaults to None or to an
\* empty list; a field holding a list of models is declared a list of their
\* type, a field holding a list of anything else a list of a non-model.
RECURSIVE Rebuildable(_)
Rebuildable(m) ==
  \A k \in DOMAIN m.val.attrs :
    LET v == m.val.attrs[k]
        d == Defaults[m.val.cls][k]
    IN IF IsModel(v)
       THEN IsModel(d) /\ d.val.cls = v.val.cls /\ Rebuildable(v)
       ELSE /\ d \in {None, PyList(<<>>)}
            /\ (IsList(v) /\ v.val # <<>>) =>
                 IF IsModel(v.val[1])
                 THEN /\ ListOfModelField(m.val.cls, k, v.val[1].val.cls)
                      /\ \A i \in 1..Len(v.val) : Rebuildable(v.val[i])
                 ELSE ListOfPlainField(m.val.cls, k)

\* The last call was a round trip: from_dict on what to_dict returned for self.
RoundTripDone == scenario = "encode" /\ pc = "from_dict"

\* The last call was a decode of the drawn mapping.
DecodeDone == scenario = "decode" /\ pc \in {"from_dict", "from_dict_api"}

----------------------------------------------------------------------------
(* Properties *)

\* C1, as claimed: for every type and every fully populated instance of it,
\* from_dict(to_dict(m)) is an instance of the type equal to m attribute by
\* attribute, whatever defaults the type gives its fields.
C1_RoundTripAnyDefaults ==
  (RoundTripDone /\ FullyPopulated(self)) =>
    (IsModel(ret) /\ ret.val.cls = cls /\ PyEq(ret, self))

\* C1, amended: the round trip holds for every fully populated instance whose
\* type (and the types nested in it) has defaults and declarations that let a
\* decode rebuild it; an enumeration member comes back as its integer, which
\* compares equal.
C1_RoundTrip ==
  (RoundTripDone /\ FullyPopulated(self) /\ Rebuildable(self)) =>
    (IsModel(ret) /\ ret.val.cls = cls /\ PyEq(ret, self))

\* A round trip of an Outer holding a nested Leaf, a list of integers and a
\* list of two different Leaf instances has been made and returned an instance.
C1_Witness ==
  /\ RoundTripDone
  /\ FullyPopulated(self)
  /\ Rebuildable(self)
  /\ cls = "Outer"
  /\ self.val.attrs["leaves"] = PyList(<<LeafA, LeafB>>)
  /\ ret.val.attrs["leaves"] = PyList(<<Model("Leaf", [a |-> PyInt(1), e |-> PyInt(1)]),
                                       Model("Leaf", [a |-> PyInt(2), e |-> PyInt(1)])>>)
  /\ ret.val.attrs["leaf"].val.attrs["a"] = self.val.attrs["leaf"].val.attrs["a"]

\* C2, as claimed: a decode of a mapping with a top-level key that is no
\* attribute of the type returns an instance when safe is true and raises an
\* attribute-error when safe is false, whatever value the key is paired with.
\* Stated for the mappings that hold that key alone.
C2_SafeFlag ==
  (DecodeDone /\ Len(Pairs) = 1 /\ Pairs[1][1] = UnknownKey) =>
    IF safe THEN IsModel(ret) ELSE ret = Raise("AttributeError")

\* C3: populate_from_dict sets exactly the attributes that are None and that
\* the mapping names, to the mapping's values; every other attribute keeps its
\* value, through every call of a sequence; the call returns the instance.
C3_MergeNullOnly ==
  pc = "populate_from_dict" =>
    /\ DOMAIN self.val.attrs = DOMAIN before.val.attrs
    /\ \A k \in DOMAIN before.val.attrs :
         before.val.attrs[k] # None => self.val.attrs[k] = before.val.attrs[k]
    /\ ~IsError(ret) =>
         /\ ret = self
         /\ \A k \in DOMAIN before.val.attrs :
              self.val.attrs[k] =
                IF HasKey(model_dict, k) /\ before.val.attrs[k] = None
                THEN Lookup(model_dict, k)
                ELSE before.val.attrs[k]

\* A second merge has offered a value to every field of an Outer: the empty
\* list, the nested model and the value the first merge set are kept, the one
\* field still None is set.
C3_Witness ==
  /\ pc = "populate_from_dict"
  /\ calls = 2
  /\ cls = "Outer"
  /\ ret = self
  /\ \A k \in {"x", "y", "leaf", "leaves"} : HasKey(model_dict, k)
  /\ before.val.attrs["x"] = PyInt(7)
  /\ self.val.attrs["x"] = PyInt(7)
  /\ self.val.attrs["y"] = PyList(<<>>)
  /\ self.val.attrs["leaf"] = New("Leaf")
  /\ before.val.attrs["leaves"] = None
  /\ self.val.attrs["leaves"] = PyStr("late")

\* The case of C4: the fresh target holds for k a value that is not None, not
\* an empty list and not a model, and the incoming value is not a list.
SkipCase(T, k, v) ==
  /\ IsField(T, k)
  /\ Defaults[T][k] \notin {None, PyList(<<>>)}
  /\ ~IsModel(Defaults[T][k])
  /\ ~IsList(v)

\* C4: in both decodes a key in that case is not assigned, raises nothing, and
\* has its default in the returned instance.
C4_SilentSkip ==
  DecodeDone =>
    \A i \in 1..Len(Pairs) :
      SkipCase(cls, Pairs[i][1], Pairs[i][2]) =>
        /\ Pairs[i][1] \notin assigned
        /\ ~(IsError(ret) /\ at = i)
        /\ IsModel(ret) => ret.val.attrs[Pairs[i][1]] = Defaults[cls][Pairs[i][1]]

\* A strict decode of {"b": 9} into Inner, whose b defaults to 3, has returned
\* an Inner with b still 3.
C4_Witness ==
  /\ scenario = "decode"
  /\ pc = "from_dict"
  /\ cls = "Inner"
  /\ Pairs = << <<"b", PyInt(9)>> >>
  /\ ret = Model("Inner", [a |-> None, b |-> PyInt(3)])

\* C5: a strict decode that returns has, for a non-empty list given to a field
\* declared a list of a model type, a list of the same length whose i-th
\* element is the strict decode of the i-th source element into that type.
C5_ListResolution ==
  (scenario = "decode" /\ pc = "from_dict" /\ IsModel(ret)) =>
    \A i \in 1..Len(Pairs), C \in Types :
      LET k == Pairs[i][1]
          v == Pairs[i][2]
      IN (ListOfModelField(cls, k, C) /\ IsList(v) /\ v.val # <<>>) =>
           LET r == ret.val.attrs[k]
           IN /\ IsList(r)
              /\ Len(r.val) = Len(v.val)
              /\ \A j \in 1..Len(v.val) :
                   /\ IsModel(r.val[j])
                   /\ r.val[j].val.cls = C
                   /\ r.val[j] = from_dict(C, v.val[j], FALSE)

\* A strict decode of {"leaves": [{"a": 1}, {"a": 2}]} into Outer has returned
\* two Leaf instances, a = 1 then a = 2.
C5_Witness ==
  /\ scenario = "decode"
  /\ pc = "from_dict"
  /\ cls = "Outer"
  /\ Pairs = << <<"leaves", PyList(<<LeafMapA, LeafMapB>>)>> >>
  /\ IsModel(ret)
  /\ ret.val.attrs["leaves"] = PyList(<<Model("Leaf", [a |-> PyInt(1), e |-> None]),
                                        Model("Leaf", [a |-> PyInt(2), e |-> None])>>)

\* C6, as claimed: from_dict_api assigns a key exactly when from_dict assigns
\* it.  Stated for the mappings of the type's own fields that both decodes
\* return on.
C6_SamePredicate ==
  (scenario = "decode" /\ pc = "from_dict_api" /\ IsModel(ret)
     /\ \A i \in 1..Len(Pairs) : IsField(cls, Pairs[i][1])
     /\ IsModel(from_dict(cls, model_dict, safe))) =>
    assigned = FromDictRun(cls, model_dict, safe).set

\* C6, amended: from_dict_api assigns a key exactly when the existing value is
\* None, an empty list or a nested model, whatever the incoming value; from_dict
\* assigns it in those cases and also whenever the incoming value is a list;
\* a list from_dict_api assigns is the incoming list as it is.  Stated of every
\* pair the loop got past without raising.
C6_ApiPredicate ==
  DecodeDone =>
    \A i \in 1..Len(Pairs) :
      LET k == Pairs[i][1]
          v == Pairs[i][2]
          d == GetAttr(New(cls), k)
      IN (~IsError(ret) \/ i < at) =>
           /\ k \in assigned <=>
                \/ d = None
                \/ d = PyList(<<>>)
                \/ IsModel(d)
                \/ pc = "from_dict" /\ IsList(v)
           /\ (pc = "from_dict_api" /\ k \in assigned /\ IsList(v) /\ IsModel(ret)) =>
                ret.val.attrs[k] = v

\* A permissive decode of {"n": [], "opt": [{"a": 1}]} into Misc, whose n
\* defaults to 0, has skipped n and assigned opt the incoming list, where the
\* strict decode assigns both.
C6_Witness ==
  /\ scenario = "decode"
  /\ pc = "from_dict_api"
  /\ cls = "Misc"
  /\ Pairs = << <<"n", PyList(<<>>)>>, <<"opt", PyList(<<LeafMapA>>)>> >>
  /\ IsModel(ret)
  /\ assigned = {"opt"}
  /\ ret.val.attrs["n"] = PyInt(0)
  /\ ret.val.attrs["opt"] = PyList(<<LeafMapA>>)
  /\ FromDictRun(cls, model_dict, safe).set = {"n", "opt"}

\* C7: to_dict stores a list that is empty or holds only primitives as it is,
\* and a list whose first element is a model as the list of the encodings of
\* its elements, in order; it raises only on a list that starts with a model
\* and holds something that is none.
C7_EncodeLists ==
  (scenario = "encode" /\ pc = "to_dict") =>
    /\ IsError(ret) =>
         \E k \in DOMAIN self.val.attrs :
           LET l == self.val.attrs[k]
           IN IsList(l) /\ l.val # <<>> /\ IsModel(l.val[1])
                /\ \E i \in 1..Len(l.val) : ~IsModel(l.val[i])
    /\ ~IsError(ret) =>
         \A k \in DOMAIN self.val.attrs :
           LET l == self.val.attrs[k]
               out == Lookup(ret, k)
           IN IsList(l) =>
                /\ (\A i \in 1..Len(l.val) : l.val[i].kind \in PRIMITIVES) => out = l
                /\ (l.val # <<>> /\ IsModel(l.val[1])) =>
                     /\ IsList(out)
                     /\ Len(out.val) = Len(l.val)
                     /\ \A i \in 1..Len(l.val) : out.val[i] = to_dict(l.val[i])

\* An Outer whose y is [None, {"a": 1}] and whose leaves are two different
\* Leaf instances has been encoded: y is stored as it is, leaves as the two
\* encodings in order.
C7_Witness ==
  /\ scenario = "encode"
  /\ pc = "to_dict"
  /\ cls = "Outer"
  /\ ~reversed
  /\ self.val.attrs["y"] = PyList(<<None, LeafMapA>>)
  /\ self.val.attrs["leaves"] = PyList(<<LeafA, LeafB>>)
  /\ Lookup(ret, "y") = PyList(<<None, LeafMapA>>)
  /\ Lookup(ret, "leaves") =
       PyList(<<PyDict(<< <<"a", PyInt(1)>>, <<"e", PyInt(1)>> >>),
                PyDict(<< <<"a", PyInt(2)>>, <<"e", PyInt(1)>> >>)>>)

\* C8, as claimed: a strict decode of a non-empty list for a field whose
\* declared element type does not resolve to a model type raises nothing and
\* stores the incoming list.  Stated for the mappings that hold that key alone.
C8_SoftFailure ==
  (scenario = "decode" /\ pc = "from_dict" /\ Len(Pairs) = 1
     /\ IsField(cls, Pairs[1][1])
     /\ ~IsModel(Defaults[cls][Pairs[1][1]])
     /\ IsList(Pairs[1][2]) /\ Pairs[1][2].val # <<>>
     /\ ~\E C \in Types : ListOfModelField(cls, Pairs[1][1], C)) =>
    (IsModel(ret) /\ ret.val.attrs[Pairs[1][1]] = Pairs[1][2])

\* C9: when populate_from_dict(d, safe=False) raises at the pair in position i,
\* whose key the instance lacks, the instance has every earlier pair applied
\* (set iff it was None) and no later one.
C9_MergeNotAtomic ==
  (pc = "populate_from_dict" /\ ~safe /\ IsError(ret)) =>
    /\ ret = Raise("AttributeError")
    /\ at \in 1..Len(Pairs)
    /\ ~HasAttr(before, Pairs[at][1])
    /\ DOMAIN self.val.attrs = DOMAIN before.val.attrs
    /\ \A k \in DOMAIN before.val.attrs :
         self.val.attrs[k] =
           IF before.val.attrs[k] = None /\ \E j \in 1..(at - 1) : Pairs[j][1] = k
           THEN Lookup(model_dict, k)
           ELSE before.val.attrs[k]

\* A merge of three keys into a Misc has raised at the second: the first key,
\* which was None, holds the mapping's value, the third, also None, does not.
C9_Witness ==
  /\ pc = "populate_from_dict"
  /\ ~safe
  /\ cls = "Misc"
  /\ Pairs = << <<"raw", PyInt(7)>>, <<UnknownKey, PyInt(7)>>, <<"opt", PyInt(7)>> >>
  /\ ret = Raise("AttributeError")
  /\ at = 2
  /\ before.val.attrs["raw"] = None
  /\ self.val.attrs["raw"] = PyInt(7)
  /\ before.val.attrs["opt"] = None
  /\ self.val.attrs["opt"] = None

\* The mapping v given for the nested-model field k of T starts with a key the
\* nested model lacks.
NestedUnknown(T, k, v) ==
  /\ IsField(T, k)
  /\ IsModel(Defaults[T][k])
  /\ v.kind = "dict"
  /\ v.val # <<>>
  /\ ~IsField(Defaults[T][k].val.cls, v.val[1][1])

\* The list v given for k, declared a list of a model type, holds a mapping
\* that starts with a key that type lacks.
ElementUnknown(T, k, v) ==
  /\ IsList(v)
  /\ \E C \in Types :
       /\ ListOfModelField(T, k, C)
       /\ \E j \in 1..Len(v.val) :
            /\ v.val[j].kind = "dict"
            /\ v.val[j].val # <<>>
            /\ ~IsField(C, v.val[j].val[1][1])

\* C10: a decode made with safe=True decodes a nested mapping, and in the
\* strict decode each element of a resolved list, with safe=False: an unknown
\* key in it raises an attribute-error out of the safe call.
C10_SafeNotPropagated ==
  (DecodeDone /\ safe) =>
    \A i \in 1..Len(Pairs) :
      (\/ NestedUnknown(cls, Pairs[i][1], Pairs[i][2])
       \/ pc = "from_dict" /\ ElementUnknown(cls, Pairs[i][1], Pairs[i][2])) =>
        /\ IsError(ret)
        /\ at <= i
        /\ at = i => ret = Raise("AttributeError")

\* A strict decode with safe=True of {"x": 9, "leaf": {"zzz": 1}} into Outer
\* has raised an attribute-error at the nested mapping.
C10_Witness ==
  /\ scenario = "decode"
  /\ pc = "from_dict"
  /\ safe
  /\ cls = "Outer"
  /\ Pairs = << <<"x", PyInt(9)>>, <<"leaf", LeafMapZ>> >>
  /\ at = 2
  /\ ret = Raise("AttributeError")

====
